---------------------------- MODULE Spec2Model ----------------------------
(***************************************************************************)
(* A model of the request-delivery core of go-aws: the Attempt retry       *)
(* iterator (aws/attempt.go), the ResilientTransport retry loop            *)
(* (aws/resilient_transport.go, both copies found in the repository), the  *)
(* default retry predicate awsRetry (aws/client.go) and the S3 request     *)
(* preparation S3.prepare, the delivery S3.run with buildError and the     *)
(* retry classifier shouldRetry (aws/s3/s3.go), and the bucket operations  *)
(* built on them (aws/s3/bucket.go).                                       *)
(*                                                                         *)
(* Times are integers in units of 200ms (the Delay of the S3 strategy).    *)
(* Strings are sequences of one-character strings.                         *)
(***************************************************************************)
EXTENDS Integers, Sequences, FiniteSets, TLC

VARIABLES
    \* ---- Attempt (aws/attempt.go)
    strategy,      \* the AttemptStrategy the Attempt was started from
    attempt,       \* the Attempt: [last, end, force, count]
    clock,         \* what time.Now() returns
    monotonic,     \* whether time.Now() never goes backwards in this run
    call,          \* the last call made on the Attempt and what it did
    prev,          \* the call made before that one: [op, ret]
    nextCalls,     \* how many times Next has been called on the Attempt
    \* ---- ResilientTransport (aws/resilient_transport.go)
    rt,            \* the transport: [MaxTries, ShouldRetry, Wait, copy]
    rtPc,          \* where the RoundTrip in progress stands
    try,           \* the loop variable of tries
    response,      \* the local variable response of tries
    error,         \* the local variable error of tries
    outcomes,      \* what the underlying transport returned, execution by execution
    events,        \* executions, body closes and waits, in the order they happened
    depth,         \* how many RoundTrip frames are on the stack
    \* ---- awsRetry (aws/client.go)
    retryIn,       \* the response and error awsRetry is called with
    retryOut,      \* what it returned
    retryPc,       \* "input" before the call, "done" after
    \* ---- S3.prepare (aws/s3/s3.go)
    s3,            \* the S3: [Auth, Region]
    req,           \* the request descriptor
    maps,          \* the url.Values and http.Header maps, by reference
    before,        \* the descriptor and the maps as the last prepare found them
    prepErr,       \* the error the last prepare returned
    prepCalls,     \* how many times prepare was called on the descriptor
    \* ---- shouldRetry (aws/s3/s3.go)
    srIn,          \* the error shouldRetry is called with
    srOut,         \* what it returned
    srPc,          \* "input" before the call, "done" after
    \* ---- the bucket operations (aws/s3/bucket.go) and S3.run (aws/s3/s3.go)
    bOp,           \* the operation in progress
    bPc,           \* where it stands
    ret,           \* what it returned: [resp, err]
    lastErr,       \* the error of its last attempt (of query, or of run)
    lastRun,       \* what the last call of run returned: [resp, err]
    lastHttp,      \* what the last HTTP execution returned to run
    execs,         \* how many HTTP executions the operation has made
    sent,          \* the last HTTP execution: what was sent, and how
    signedAt       \* the value of execs when prepare last signed the descriptor

attemptVars == <<strategy, attempt, clock, monotonic, call, prev, nextCalls>>
transportVars == <<rt, rtPc, try, response, error, outcomes, events, depth>>
retryVars == <<retryIn, retryOut, retryPc>>
prepareVars == <<s3, req, maps, before, prepErr, prepCalls>>
classifyVars == <<srIn, srOut, srPc>>
bucketVars == <<bOp, bPc, ret, lastErr, lastRun, lastHttp, execs, sent, signedAt>>

vars == <<attemptVars, transportVars, retryVars, prepareVars, classifyVars, bucketVars>>

----------------------------------------------------------------------------
(* Bounds of the model                                                      *)

\* largest Total, Delay and Min of the small strategies explored
MaxTotal == 3
MaxDelay == 2
MaxMin == 2
\* Next is called at most MaxCalls times on one Attempt
MaxCalls == 5
\* a loop makes at most MaxAttempts attempts on one Attempt, and calls Next
\* at most MaxRefusals times more once it has returned false
MaxAttempts == 27
MaxRefusals == 2
\* the clock is advanced by ClockAdvance up to MaxOver past the deadline
MaxOver == 2
\* the largest single clock step, forwards or backwards
MaxStep == 2
\* the clock never falls below -MaxBack
MaxBack == 1
\* time.Sleep(d) returns between d and d + MaxOversleep later
MaxOversleep == 1
\* a wall clock is set back by up to MaxSetBack during one time.Sleep
MaxSetBack == 2

\* the largest MaxTries a ResilientTransport is configured with
MaxTriesBound == 3
\* the goroutine stack holds MaxStack frames of RoundTrip and tries
MaxStack == 4

\* bucket names are at most MaxBucketLen characters long
MaxBucketLen == 2
\* an HTTP execution of run returns at once, or after MaxRunTime
MaxRunTime == 6

\* prepare is called at most MaxPrepares times on one descriptor
MaxPrepares == 2
\* the clock of a prepare run goes up to MaxPrepareClock
MaxPrepareClock == 6

(* Program constants: the S3 strategy, in units of 200ms                    *)
S3Min == 5
S3Total == 25
S3Delay == 1

----------------------------------------------------------------------------
(* aws/attempt.go                                                           *)

AttemptStrategy(total, delay, min) == [Total |-> total, Delay |-> delay, Min |-> min]

\* var attempts = aws.AttemptStrategy{Min: 5, Total: 5s, Delay: 200ms}
attempts == AttemptStrategy(S3Total, S3Delay, S3Min)

Strategies ==
    { AttemptStrategy(t, d, m) : t \in 0..MaxTotal, d \in 0..MaxDelay, m \in 0..MaxMin }
        \cup {attempts}

\* a faulty Start: the deadline is one Delay late
StartLate(s, now) ==
    [strategy |-> s, last |-> now, end |-> now + s.Total + s.Delay,
     force |-> TRUE, count |-> 0]

\* a faulty Start: the first attempt is not forced
StartUnforced(s, now) ==
    [strategy |-> s, last |-> now, end |-> now + s.Total, force |-> FALSE, count |-> 0]

\* func (self AttemptStrategy) Start() *Attempt
Start(s, now) ==
    [strategy |-> s, last |-> now, end |-> now + s.Total, force |-> TRUE, count |-> 0]

\* a faulty nextSleep: the time since the last attempt counts twice
nextSleepShort(a, now) ==
    LET sleep == a.strategy.Delay - 2 * (now - a.last)
    IN  IF sleep < 0 THEN 0 ELSE sleep

\* func (self *Attempt) nextSleep(now time.Time) time.Duration
nextSleep(a, now) ==
    LET sleep == a.strategy.Delay - (now - a.last)
    IN  IF sleep < 0 THEN 0 ELSE sleep

\* a faulty Next: the minimum attempt count does not override the budget
NextIgnoresMin(a, now, over) ==
    LET sleep == nextSleep(a, now)
    IN  IF ~a.force /\ ~(now + sleep < a.end)
        THEN [ret |-> FALSE, a |-> a, slept |-> 0, now |-> now]
        ELSE IF sleep > 0 /\ a.count > 0
             THEN [ret |-> TRUE,
                   a |-> [a EXCEPT !.force = FALSE, !.count = a.count + 1,
                                   !.last = now + sleep + over],
                   slept |-> sleep, now |-> now + sleep + over]
             ELSE [ret |-> TRUE,
                   a |-> [a EXCEPT !.force = FALSE, !.count = a.count + 1, !.last = now],
                   slept |-> 0, now |-> now]

\* a faulty Next: force, once set, is never cleared
NextKeepsForce(a, now, over) ==
    LET sleep == nextSleep(a, now)
    IN  IF ~a.force /\ ~(now + sleep < a.end) /\ a.strategy.Min <= a.count
        THEN [ret |-> FALSE, a |-> a, slept |-> 0, now |-> now]
        ELSE IF sleep > 0 /\ a.count > 0
             THEN [ret |-> TRUE,
                   a |-> [a EXCEPT !.count = a.count + 1, !.last = now + sleep + over],
                   slept |-> sleep, now |-> now + sleep + over]
             ELSE [ret |-> TRUE,
                   a |-> [a EXCEPT !.count = a.count + 1, !.last = now],
                   slept |-> 0, now |-> now]

\* a faulty Next: a refusal forces the attempt after it
NextRefusalForces(a, now, over) ==
    LET sleep == nextSleep(a, now)
    IN  IF ~a.force /\ ~(now + sleep < a.end) /\ a.strategy.Min <= a.count
        THEN [ret |-> FALSE, a |-> [a EXCEPT !.force = TRUE], slept |-> 0, now |-> now]
        ELSE IF sleep > 0 /\ a.count > 0
             THEN [ret |-> TRUE,
                   a |-> [a EXCEPT !.force = FALSE, !.count = a.count + 1,
                                   !.last = now + sleep + over],
                   slept |-> sleep, now |-> now + sleep + over]
             ELSE [ret |-> TRUE,
                   a |-> [a EXCEPT !.force = FALSE, !.count = a.count + 1, !.last = now],
                   slept |-> 0, now |-> now]

\* a faulty Next: the promise of HasNext (force) is not honoured
NextIgnoresForce(a, now, over) ==
    LET sleep == nextSleep(a, now)
    IN  IF ~(now + sleep < a.end) /\ a.strategy.Min <= a.count
        THEN [ret |-> FALSE, a |-> a, slept |-> 0, now |-> now]
        ELSE IF sleep > 0 /\ a.count > 0
             THEN [ret |-> TRUE,
                   a |-> [a EXCEPT !.force = FALSE, !.count = a.count + 1,
                                   !.last = now + sleep + over],
                   slept |-> sleep, now |-> now + sleep + over]
             ELSE [ret |-> TRUE,
                   a |-> [a EXCEPT !.force = FALSE, !.count = a.count + 1, !.last = now],
                   slept |-> 0, now |-> now]

\* func (self *Attempt) Next() bool
\* now is time.Now() on entry (line 45); over is what time.Now() after the
\* sleep (line 56) shows beyond now + sleep: the time by which time.Sleep
\* overslept, less what a wall clock was set back during the sleep.  The
\* result holds the return value, the Attempt afterwards, the duration passed
\* to time.Sleep (0 when it is not called) and the clock on return.
Next(a, now, over) ==
    LET sleep == nextSleep(a, now)
    IN  IF ~a.force /\ ~(now + sleep < a.end) /\ a.strategy.Min <= a.count
        THEN [ret |-> FALSE, a |-> a, slept |-> 0, now |-> now]
        ELSE IF sleep > 0 /\ a.count > 0
             THEN [ret   |-> TRUE,
                   a     |-> [a EXCEPT !.force = FALSE,
                                       !.count = a.count + 1,
                                       !.last = now + sleep + over],
                   slept |-> sleep,
                   now   |-> now + sleep + over]
             ELSE [ret   |-> TRUE,
                   a     |-> [a EXCEPT !.force = FALSE,
                                       !.count = a.count + 1,
                                       !.last = now],
                   slept |-> 0,
                   now   |-> now]

\* a faulty HasNext: a true answer within the budget does not set force
HasNextNoForce(a, now) ==
    IF a.force \/ a.strategy.Min > a.count
    THEN [ret |-> TRUE, a |-> a]
    ELSE IF now + nextSleep(a, now) < a.end
         THEN [ret |-> TRUE, a |-> a]
         ELSE [ret |-> FALSE, a |-> a]

\* func (self *Attempt) HasNext() bool
HasNext(a, now) ==
    IF a.force \/ a.strategy.Min > a.count
    THEN [ret |-> TRUE, a |-> a]
    ELSE IF now + nextSleep(a, now) < a.end
         THEN [ret |-> TRUE, a |-> [a EXCEPT !.force = TRUE]]
         ELSE [ret |-> FALSE, a |-> a]

----------------------------------------------------------------------------
(* aws/s3/s3.go: the request descriptor and S3.prepare                      *)

\* strings.HasPrefix(s, prefix)
HasPrefix(s, prefix) ==
    Len(s) >= Len(prefix) /\ SubSeq(s, 1, Len(prefix)) = prefix

\* strings.IndexAny(s, chars): the index (from 0) of the first character of
\* s that is in chars, or -1
IndexAny(s, chars) ==
    LET hits == { i \in 1..Len(s) : s[i] \in chars }
    IN  IF hits = {} THEN 0 - 1
        ELSE (CHOOSE i \in hits : \A j \in hits : i <= j) - 1

\* strings.LastIndex for a single character
LastIndex(s, c) ==
    LET hits == { i \in 1..Len(s) : s[i] = c }
    IN  IF hits = {} THEN 0 - 1
        ELSE (CHOOSE i \in hits : \A j \in hits : j <= i) - 1

\* strings.Replace(s, old, new, -1), old not empty
RECURSIVE Replace(_, _, _)
Replace(s, old, new) ==
    IF Len(s) < Len(old) THEN s
    ELSE IF SubSeq(s, 1, Len(old)) = old
         THEN new \o Replace(SubSeq(s, Len(old) + 1, Len(s)), old, new)
         ELSE <<s[1]>> \o Replace(Tail(s), old, new)

Slash == <<"/">>
BucketPlaceholder == <<"$", "{", "b", "u", "c", "k", "e", "t", "}">>
Letters == {"a", "b", "c", "e", "h", "k", "p", "s", "t", "u"}

\* url.Parse(rawurl), as far as the Host goes: the scheme up to the first
\* ":", then after "//" the authority up to the next "/", the host being
\* what follows its last "@".  A host holding "{" or "}" is refused
\* (invalid character in host name), a leading ":" too (missing scheme).
UrlParse(rawurl) ==
    LET colon     == IndexAny(rawurl, {":"})
        hasScheme == colon > 0 /\ \A i \in 1..colon : rawurl[i] \in Letters
        rest      == IF hasScheme THEN SubSeq(rawurl, colon + 2, Len(rawurl)) ELSE rawurl
        hasAuth   == HasPrefix(rest, <<"/", "/">>)
        tail      == SubSeq(rest, 3, Len(rest))
        slash     == IndexAny(tail, {"/"})
        authority == IF slash < 0 THEN tail ELSE SubSeq(tail, 1, slash)
        at        == LastIndex(authority, "@")
        host      == IF hasAuth THEN SubSeq(authority, at + 2, Len(authority)) ELSE <<>>
    IN  IF colon = 0 \/ IndexAny(host, {"{", "}"}) >= 0
        THEN [ok |-> FALSE, Host |-> <<>>]
        ELSE [ok |-> TRUE, Host |-> host]

\* time.Now().In(time.UTC).Format(time.RFC1123): the time to the second
UnitsPerSecond == 5
RFC1123(now) == now \div UnitsPerSecond

\* a map (url.Values, http.Header), its entries and assignment to an entry
EmptyMap == [k \in {} |-> <<>>]
MapSet(m, key, value) ==
    [k \in DOMAIN m \cup {key} |-> IF k = key THEN value ELSE m[k]]

\* the maps a descriptor can refer to: the ones its caller built and the
\* copies prepare makes; a nil map reads as empty
MapRefs == {"callerParams", "callerHeaders", "params", "headers"}
MapOf(ms, ref) == IF ref = "nil" THEN EmptyMap ELSE ms[ref]

\* sign(auth, method, signpath, params, headers): the headers with the
\* Authorization entry, "AWS " + AccessKey + ":" + signature, the signature
\* a keyed hash of the canonical string, kept here as what it is made of
sign(auth, method, signpath, params, headers) ==
    LET amz == { k \in DOMAIN headers : k = "x-amz-acl" }
        canonical == [method |-> method,
                      type   |-> IF "Content-Type" \in DOMAIN headers
                                 THEN headers["Content-Type"] ELSE "",
                      date   |-> IF "Date" \in DOMAIN headers THEN headers["Date"] ELSE 0 - 1,
                      amz    |-> [k \in amz |-> headers[k]],
                      path   |-> signpath]
    IN  MapSet(headers, "Authorization",
               [key |-> auth.AccessKey,
                signature |-> [secret |-> auth.SecretKey, canonical |-> canonical]])

NoError == "nil"
BadBucket == "bad S3 bucket"
BadEndpoint == "bad S3 endpoint URL"

\* if !strings.HasPrefix(req.path, "/") { req.path = "/" + req.path }
withSlash(path) == IF ~HasPrefix(path, Slash) THEN Slash \o path ELSE path

\* a faulty bucketPath: the "/" before the bucket is left out
bucketPathNoSlash(bucket, path) == bucket \o path

\* req.path = "/" + req.bucket + req.path
bucketPath(bucket, path) == Slash \o bucket \o path

\* a faulty signablePath: the bucket is left out of the path that is signed
signablePathNoBucket(bucket, signpath) == signpath

\* req.signpath = "/" + req.bucket + req.signpath
signablePath(bucket, signpath) == Slash \o bucket \o signpath

\* strings.IndexAny(req.bucket, "/:@") >= 0
badBucket(bucket) == IndexAny(bucket, {"/", ":", "@"}) >= 0

\* a faulty first part of prepare: the maps of the caller are not copied
resolveNoCopy(s, r, ms) ==
    LET r1  == [r EXCEPT !.prepared = TRUE]
        r2  == IF r1.method = "" THEN [r1 EXCEPT !.method = "GET"] ELSE r1
        ms1 == [ms EXCEPT !["params"] = EmptyMap, !["headers"] = EmptyMap]
        r3  == [r2 EXCEPT !.params = IF r.params = "nil" THEN "params" ELSE r.params,
                          !.headers = IF r.headers = "nil" THEN "headers" ELSE r.headers]
        r4  == [r3 EXCEPT !.path = withSlash(r3.path)]
        r5  == [r4 EXCEPT !.signpath = r4.path]
    IN  IF r5.bucket # <<>>
        THEN LET r6 == [r5 EXCEPT !.baseurl = s.Region.S3BucketEndpoint]
             IN  IF r6.baseurl = <<>>
                 THEN [err |-> NoError, maps |-> ms1,
                       req |-> [r6 EXCEPT !.baseurl = s.Region.S3Endpoint,
                                          !.path = bucketPath(r6.bucket, r6.path),
                                          !.signpath = signablePath(r6.bucket, r6.signpath)]]
                 ELSE IF badBucket(r6.bucket)
                      THEN [err |-> BadBucket, maps |-> ms1, req |-> r6]
                      ELSE [err |-> NoError, maps |-> ms1,
                            req |-> [r6 EXCEPT
                                       !.baseurl = Replace(r6.baseurl, BucketPlaceholder, r6.bucket),
                                       !.signpath = signablePath(r6.bucket, r6.signpath)]]
        ELSE [err |-> NoError, maps |-> ms1, req |-> r5]

\* the first part of prepare, run when the descriptor is not yet prepared:
\* the descriptor and the maps afterwards, and whether it returned an error
resolve(s, r, ms) ==
    LET r1  == [r EXCEPT !.prepared = TRUE]
        r2  == IF r1.method = "" THEN [r1 EXCEPT !.method = "GET"] ELSE r1
        \* Copy so they can be mutated without affecting on retries.
        ms1 == [ms EXCEPT !["params"] = MapOf(ms, r.params),
                          !["headers"] = MapOf(ms, r.headers)]
        r3  == [r2 EXCEPT !.params = "params", !.headers = "headers"]
        r4  == [r3 EXCEPT !.path = withSlash(r3.path)]
        r5  == [r4 EXCEPT !.signpath = r4.path]
    IN  IF r5.bucket # <<>>
        THEN LET r6 == [r5 EXCEPT !.baseurl = s.Region.S3BucketEndpoint]
             IN  IF r6.baseurl = <<>>
                 THEN \* Use the path method to address the bucket.
                      [err |-> NoError, maps |-> ms1,
                       req |-> [r6 EXCEPT !.baseurl = s.Region.S3Endpoint,
                                          !.path = bucketPath(r6.bucket, r6.path),
                                          !.signpath = signablePath(r6.bucket, r6.signpath)]]
                 ELSE \* Just in case, prevent injection.
                      IF badBucket(r6.bucket)
                      THEN [err |-> BadBucket, maps |-> ms1, req |-> r6]
                      ELSE [err |-> NoError, maps |-> ms1,
                            req |-> [r6 EXCEPT
                                       !.baseurl = Replace(r6.baseurl, BucketPlaceholder, r6.bucket),
                                       !.signpath = signablePath(r6.bucket, r6.signpath)]]
        ELSE [err |-> NoError, maps |-> ms1, req |-> r5]

\* a faulty prepare: the descriptor is resolved again on every call
prepareAlwaysResolves(s, r, ms, now) ==
    LET first == resolve(s, r, ms)
        u     == UrlParse(first.req.baseurl)
    IN  IF first.err # NoError THEN first
        ELSE IF ~u.ok THEN [first EXCEPT !.err = BadEndpoint]
        ELSE LET h1 == MapSet(MapOf(first.maps, first.req.headers), "Host", u.Host)
                 h2 == MapSet(h1, "Date", RFC1123(now))
                 h3 == sign(s.Auth, first.req.method, first.req.signpath,
                            MapOf(first.maps, first.req.params), h2)
             IN  [err  |-> NoError,
                  req  |-> first.req,
                  maps |-> [first.maps EXCEPT ![first.req.headers] = h3]]

\* func (self *S3) prepare(req *request) error, called at time now
prepare(s, r, ms, now) ==
    LET first == IF ~r.prepared THEN resolve(s, r, ms)
                 ELSE [err |-> NoError, maps |-> ms, req |-> r]
        u     == UrlParse(first.req.baseurl)
    IN  IF first.err # NoError THEN first
        ELSE IF ~u.ok THEN [first EXCEPT !.err = BadEndpoint]
        ELSE LET h1 == MapSet(MapOf(first.maps, first.req.headers), "Host", u.Host)
                 h2 == MapSet(h1, "Date", RFC1123(now))
                 h3 == sign(s.Auth, first.req.method, first.req.signpath,
                            MapOf(first.maps, first.req.params), h2)
             IN  [err  |-> NoError,
                  req  |-> first.req,
                  maps |-> [first.maps EXCEPT ![first.req.headers] = h3]]

\* the regions: path-style addressing (no bucket endpoint, as every region of
\* the table), or a bucket endpoint holding the placeholder once or twice
S3Endpoint == <<"h", "t", "t", "p", ":", "/", "/", "s", "3">>
BucketEndpoints ==
    { <<>>,
      <<"h", "t", "t", "p", ":", "/", "/">> \o BucketPlaceholder \o <<".", "s", "3">>,
      <<"h", "t", "t", "p", ":", "/", "/">> \o BucketPlaceholder \o <<".", "s", "3", "/">>
          \o BucketPlaceholder }
Regions == { [S3Endpoint |-> S3Endpoint, S3BucketEndpoint |-> e] : e \in BucketEndpoints }

Auth == [AccessKey |-> "access", SecretKey |-> "secret", Token |-> ""]

\* bucket names and paths of the descriptors explored
BucketChars == {"a", "/", ":", "@"}
RECURSIVE StringsUpTo(_, _)
StringsUpTo(chars, n) ==
    IF n = 0 THEN {<<>>}
    ELSE LET shorter == StringsUpTo(chars, n - 1)
         IN  shorter \cup { Append(w, c) : w \in shorter, c \in chars }
Buckets == StringsUpTo(BucketChars, MaxBucketLen)
Paths == {<<>>, <<"/">>, <<"k">>, <<"/", "k">>}

\* the descriptors the bucket operations build: method, params and headers
\* as in DelBucket, GetResponse, List and PutReader
Callers ==
    { [method |-> "DELETE", params |-> "nil", headers |-> "nil"],
      [method |-> "", params |-> "nil", headers |-> "nil"],
      [method |-> "", params |-> "callerParams", headers |-> "nil"],
      [method |-> "PUT", params |-> "nil", headers |-> "callerHeaders"] }

CallerMaps ==
    [r \in MapRefs |->
        CASE r = "callerParams"  -> [k \in {"prefix"} |-> "p"]
          [] r = "callerHeaders" -> [k \in {"Content-Length", "Content-Type", "x-amz-acl"} |->
                                       CASE k = "Content-Length" -> "3"
                                         [] k = "Content-Type" -> "text"
                                         [] k = "x-amz-acl" -> "private"]
          [] OTHER -> EmptyMap]

\* &request{method: ..., bucket: ..., path: ..., params: ..., headers: ...}
request(c, bucket, path) ==
    [method |-> c.method, bucket |-> bucket, path |-> path, signpath |-> <<>>,
     params |-> c.params, headers |-> c.headers, baseurl |-> <<>>, prepared |-> FALSE]

IdlePrepare ==
    /\ s3 = [Auth |-> Auth, Region |-> [S3Endpoint |-> S3Endpoint, S3BucketEndpoint |-> <<>>]]
    /\ req = request([method |-> "", params |-> "nil", headers |-> "nil"], <<>>, <<>>)
    /\ maps = CallerMaps
    /\ before = [req |-> req, maps |-> maps]
    /\ prepErr = NoError
    /\ prepCalls = 0

\* the Attempt of a run that is about something else
IdleAttempt ==
    /\ strategy = attempts
    /\ monotonic = TRUE
    /\ clock = 0
    /\ attempt = Start(attempts, 0)
    /\ call = [op |-> "Start", ret |-> TRUE, slept |-> 0]
    /\ prev = [op |-> "none", ret |-> TRUE]
    /\ nextCalls = 0

----------------------------------------------------------------------------
(* aws/client.go and aws/resilient_transport.go                             *)

\* *http.Response: nil, or a response with a status and a body
NilResponse == [nil |-> TRUE, StatusCode |-> 0, closed |-> FALSE]
Response(status) == [nil |-> FALSE, StatusCode |-> status, closed |-> FALSE]

\* error: nil, an error that is no net.Error, or a net.Error whose
\* Temporary() is as given
NilError == [nil |-> TRUE, net |-> FALSE, temporary |-> FALSE]
OtherError == [nil |-> FALSE, net |-> FALSE, temporary |-> FALSE]
NetError(temporary) == [nil |-> FALSE, net |-> TRUE, temporary |-> temporary]

StatusCodes == {100, 200, 204, 301, 400, 404, 499, 500, 501, 503, 599, 600, 601}
Responses == {NilResponse} \cup { Response(c) : c \in StatusCodes }
Errors == {NilError, OtherError, NetError(TRUE), NetError(FALSE)}

\* a faulty awsRetry: the upper end of the 5xx range is off by one
awsRetryTo600(res, err) ==
    LET retry1 == IF ~err.nil /\ err.net /\ err.temporary THEN TRUE ELSE FALSE
    IN  IF ~res.nil /\ 500 <= res.StatusCode /\ res.StatusCode <= 600
        THEN TRUE ELSE retry1

\* func awsRetry(req *http.Request, res *http.Response, err error) bool
awsRetry(res, err) ==
    LET retry0 == FALSE
        \* if neterr, ok := err.(net.Error); ok { if neterr.Temporary() { retry = true } }
        retry1 == IF ~err.nil /\ err.net /\ err.temporary THEN TRUE ELSE retry0
        \* if res != nil { if 500 <= res.StatusCode && res.StatusCode < 600 { retry = true } }
        retry2 == IF ~res.nil /\ 500 <= res.StatusCode /\ res.StatusCode < 600
                  THEN TRUE ELSE retry1
    IN  retry2

\* the RetryableFunc a transport is configured with: the default awsRetry,
\* or a predicate that accepts, or rejects, every outcome
RetryableFuncs == {"awsRetry", "always", "never"}

ShouldRetry(f, res, err) ==
    CASE f = "awsRetry" -> awsRetry(res, err)
      [] f = "always"   -> TRUE
      [] f = "never"    -> FALSE

\* what http.Transport.RoundTrip returns: a response and no error, or no
\* response and an error
Outcomes ==
    { [response |-> Response(c), error |-> NilError] : c \in {200, 204, 404, 500, 503} }
        \cup { [response |-> NilResponse, error |-> e] : e \in Errors \ {NilError} }

\* the two copies of resilient_transport.go: in one, tries executes the
\* request with self.transport.RoundTrip, in the other with self.RoundTrip
Copies == {"transport", "self"}

Transports ==
    [MaxTries : 0..MaxTriesBound, ShouldRetry : RetryableFuncs, Wait : BOOLEAN,
     copy : Copies]

IdleTransport ==
    /\ rt = [MaxTries |-> 0, ShouldRetry |-> "awsRetry", Wait |-> FALSE, copy |-> "transport"]
    /\ rtPc = "idle"
    /\ try = 0
    /\ response = NilResponse
    /\ error = NilError
    /\ outcomes = <<>>
    /\ events = <<>>
    /\ depth = 0

IdleRetry ==
    /\ retryIn = [res |-> NilResponse, err |-> NilError]
    /\ retryOut = FALSE
    /\ retryPc = "idle"

----------------------------------------------------------------------------
(* aws/s3/s3.go: the errors of a bucket operation and shouldRetry           *)

\* an error value: its dynamic type, and the fields the code reads
ErrorValue(kind, o, code, status, message) ==
    [kind |-> kind, Op |-> o, Code |-> code, StatusCode |-> status, Message |-> message]

\* nil
NoErr == ErrorValue("nil", "", "", 0, "")
\* io.EOF and io.ErrUnexpectedEOF
EOF == ErrorValue("io.EOF", "", "", 0, "")
ErrUnexpectedEOF == ErrorValue("io.ErrUnexpectedEOF", "", "", 0, "")
\* *net.DNSError, and *net.OpError with its Op
DNSError == ErrorValue("*net.DNSError", "", "", 0, "")
OpError(o) == ErrorValue("*net.OpError", o, "", 0, "")
\* *Error, the structured error of the s3 package
S3Error(code, status, message) == ErrorValue("*Error", "", code, status, message)
\* *url.Error: what http.Client.Do wraps every error it returns in
UrlError(cause) == ErrorValue("*url.Error", cause.Op, "", 0, cause.kind)
\* *xml.SyntaxError
SyntaxError == ErrorValue("*xml.SyntaxError", "", "", 0, "")
\* the error of fmt.Errorf or errors.New
ErrorString(message) == ErrorValue("*errors.errorString", "", "", 0, message)

\* a faulty shouldRetry: AccessDenied is taken for a transient fault
shouldRetryAccessDenied(err) ==
    IF err.kind = "nil" THEN FALSE
    ELSE IF err.kind \in {"io.ErrUnexpectedEOF", "io.EOF"} THEN TRUE
    ELSE CASE err.kind = "*net.DNSError" -> TRUE
           [] err.kind = "*net.OpError" -> err.Op \in {"read", "write"}
           [] err.kind = "*Error" ->
                err.Code \in {"InternalError", "NoSuchUpload", "NoSuchBucket", "AccessDenied"}
           [] OTHER -> FALSE

\* func shouldRetry(err error) bool
shouldRetry(err) ==
    IF err.kind = "nil" THEN FALSE
    ELSE IF err.kind \in {"io.ErrUnexpectedEOF", "io.EOF"} THEN TRUE
    ELSE CASE err.kind = "*net.DNSError" -> TRUE
           [] err.kind = "*net.OpError" -> err.Op \in {"read", "write"}
           [] err.kind = "*Error" ->
                err.Code \in {"InternalError", "NoSuchUpload", "NoSuchBucket"}
           [] OTHER -> FALSE

\* the errors shouldRetry is applied to: the Codes, status codes and messages
\* of the structured errors, and the errors of other types
Codes ==
    {"", "InternalError", "NoSuchUpload", "NoSuchBucket", "AccessDenied",
     "NoSuchKey", "SlowDown", "internalerror"}
ErrorStatusCodes == {301, 400, 403, 404, 409, 500, 503}
ClassifiedErrors ==
    { S3Error(c, st, m) : c \in Codes, st \in ErrorStatusCodes, m \in {"", "message"} }
        \cup { NoErr, EOF, ErrUnexpectedEOF, DNSError, SyntaxError,
               ErrorString("bad S3 bucket"), UrlError(EOF), UrlError(OpError("read")) }
        \cup { OpError(o) : o \in {"read", "write", "dial", "accept", "close"} }

IdleClassify ==
    /\ srIn = NoErr
    /\ srOut = FALSE
    /\ srPc = "idle"

----------------------------------------------------------------------------
(* aws/s3/s3.go: query, run and buildError                                  *)

\* resp.Status, the status line of a response
StatusLine(status) ==
    CASE status = 200 -> "200 OK"
      [] status = 204 -> "204 No Content"
      [] status = 403 -> "403 Forbidden"
      [] status = 404 -> "404 Not Found"
      [] status = 500 -> "500 Internal Server Error"
      [] status = 503 -> "503 Service Unavailable"
      [] OTHER -> "status"

\* resp.Body: the document it holds ("Error" with its Code and Message,
\* "ListBucketResult"), or "empty", or "malformed" (the XML stops being well
\* formed), or "short" (the stream ends before the announced Content-Length);
\* of a malformed or short body Code and Message are the elements that stand
\* complete before the place where the document breaks.  lenient tells
\* whether the body can still be read after Close (the body of net/http's
\* transport cannot; a body whose Close does nothing can)
Body(doc, code, message, lenient) ==
    [doc |-> doc, Code |-> code, Message |-> message, lenient |-> lenient,
     closed |-> FALSE]
NoBody == Body("empty", "", "", FALSE)

\* *http.Response as run sees it
HttpResponse(status, body) ==
    [nil |-> FALSE, StatusCode |-> status, Status |-> StatusLine(status), Body |-> body]
NilHttpResponse == [nil |-> TRUE, StatusCode |-> 0, Status |-> "", Body |-> NoBody]

\* resp.Body.Close()
BodyClose(r) == [r EXCEPT !.Body.closed = TRUE]

\* xml.NewDecoder(body).Decode(&v): the error, and the Code and Message
\* fields of v afterwards.  Decode fills a field when it has read the end tag
\* of its element, so a document that breaks later leaves the fields of the
\* elements before the break set; nothing can be read of a closed body.
xmlDecode(body) ==
    IF body.closed /\ ~body.lenient
    THEN [err |-> ErrorString("http: read on closed response body"),
          Code |-> "", Message |-> ""]
    ELSE CASE body.doc = "empty" -> [err |-> EOF, Code |-> "", Message |-> ""]
           [] body.doc = "malformed" ->
                [err |-> SyntaxError, Code |-> body.Code, Message |-> body.Message]
           [] body.doc = "short" ->
                [err |-> ErrUnexpectedEOF, Code |-> body.Code, Message |-> body.Message]
           [] OTHER -> [err |-> NoErr, Code |-> body.Code, Message |-> body.Message]

\* func buildError(r *http.Response) error
buildError(r) ==
    LET \* err := Error{}; xml.NewDecoder(r.Body).Decode(&err)
        d    == xmlDecode(r.Body)
        err0 == S3Error(d.Code, 0, d.Message)
        err1 == [err0 EXCEPT !.StatusCode = r.StatusCode]
    IN  IF err1.Message = "" THEN [err1 EXCEPT !.Message = r.Status] ELSE err1

\* the client run executes the request with
httpClient == "http.DefaultClient"

\* delete(m, key)
MapDelete(m, key) == [k \in DOMAIN m \ {key} |-> m[k]]

\* func (self *S3) run(req *request, resp interface{}) (*http.Response, error)
\* with o what httpClient.Do returns if it is called; wantResp is resp != nil.
\* The result holds the two return values, the maps afterwards and whether
\* the request was executed.
run(r, ms, wantResp, o) ==
    LET u   == UrlParse(r.baseurl)
        h   == MapOf(ms, r.headers)
        ms1 == IF "Content-Length" \in DOMAIN h
               THEN [ms EXCEPT ![r.headers] = MapDelete(h, "Content-Length")]
               ELSE ms
    IN  IF ~u.ok
        THEN [resp |-> NilHttpResponse, err |-> ErrorString(BadEndpoint),
              maps |-> ms, executed |-> FALSE]
        ELSE IF o.err # NoErr
        THEN [resp |-> NilHttpResponse, err |-> o.err, maps |-> ms1, executed |-> TRUE]
        ELSE IF o.response.StatusCode # 200 /\ o.response.StatusCode # 204
        THEN \* hresp.Body.Close(); return nil, buildError(hresp)
             [resp |-> NilHttpResponse, err |-> buildError(BodyClose(o.response)),
              maps |-> ms1, executed |-> TRUE]
        ELSE IF wantResp
        THEN [resp |-> BodyClose(o.response), err |-> xmlDecode(o.response.Body).err,
              maps |-> ms1, executed |-> TRUE]
        ELSE [resp |-> o.response, err |-> NoErr, maps |-> ms1, executed |-> TRUE]

\* what run returned when it was not called
NoRun == [resp |-> NilHttpResponse, err |-> NoErr]

\* func (self *S3) query(req *request, resp interface{}) error, called at
\* time now: the error returned, the descriptor and the maps afterwards,
\* what run returned and whether the request was executed
query(s, r, ms, wantResp, o, now) ==
    CHOOSE result \in
        { IF p.err # NoError
          THEN [err |-> ErrorString(p.err), req |-> p.req, maps |-> p.maps,
                run |-> NoRun, executed |-> FALSE]
          ELSE CHOOSE ran \in
                  { [err |-> rr.err, req |-> p.req, maps |-> rr.maps,
                     run |-> [resp |-> IF ~wantResp /\ ~rr.resp.nil
                                       THEN BodyClose(rr.resp) ELSE rr.resp,
                              err |-> rr.err],
                     executed |-> rr.executed] :
                    rr \in {run(p.req, p.maps, wantResp, o)} } : TRUE :
          p \in {prepare(s, r, ms, now)} } : TRUE

\* what http.Client.Do returns: an error (always a *url.Error) and no
\* response, or a response and no error; temporary tells whether the network
\* failure behind the error reports itself temporary
Failure(cause, temporary) ==
    [err |-> UrlError(cause), temporary |-> temporary, response |-> NilHttpResponse]
Answer(status, body) ==
    [err |-> NoErr, temporary |-> FALSE, response |-> HttpResponse(status, body)]
NoOutcome == [err |-> NoErr, temporary |-> FALSE, response |-> NilHttpResponse]

\* the answers with a status that is neither 200 nor 204, the body an error
\* document, empty, malformed from the start, or cut short or malformed after
\* its Code and Message; and the answers with status 200 or 204
ErrorAnswers ==
    { Answer(404, Body("Error", "NoSuchBucket", m, l)) : m \in {"", "message"}, l \in BOOLEAN }
        \cup { Answer(500, Body("Error", "InternalError", "message", l)) : l \in BOOLEAN }
        \cup { Answer(403, Body("Error", "AccessDenied", "message", l)) : l \in BOOLEAN }
        \cup { Answer(403, Body("short", "AccessDenied", "message", l)) : l \in BOOLEAN }
        \cup { Answer(404, Body("empty", "", "", FALSE)),
               Answer(500, Body("malformed", "", "", TRUE)),
               Answer(404, Body("malformed", "NoSuchKey", "message", TRUE)) }
ResultAnswers ==
    { Answer(200, Body(d, "", "", FALSE)) :
        d \in {"ListBucketResult", "empty", "malformed", "short"} }
        \cup { Answer(204, NoBody) }
DoOutcomes ==
    { Failure(OpError("read"), TRUE), Failure(OpError("dial"), FALSE), Failure(EOF, FALSE) }
        \cup ResultAnswers \cup ErrorAnswers

\* the record of an HTTP execution: the Date header sent, whether prepare
\* signed the descriptor after the execution before this one, whether that
\* Date is the time of the execution, and the client that executed it
Sent(r, ms, fresh, now) ==
    LET h == MapOf(ms, r.headers)
    IN  [date    |-> IF "Date" \in DOMAIN h THEN h["Date"] ELSE 0 - 1,
         fresh   |-> fresh,
         current |-> "Date" \in DOMAIN h /\ h["Date"] = RFC1123(now),
         client  |-> httpClient]
NoSent == [date |-> 0 - 1, fresh |-> TRUE, current |-> TRUE, client |-> ""]

IdleBucket ==
    /\ bOp = "none"
    /\ bPc = "idle"
    /\ ret = NoRun
    /\ lastErr = NoErr
    /\ lastRun = NoRun
    /\ lastHttp = NoOutcome
    /\ execs = 0
    /\ sent = NoSent
    /\ signedAt = 0

----------------------------------------------------------------------------
(* ResilientTransport.RoundTrip and tries, step by step                     *)

\* func (self *ResilientTransport) RoundTrip(req): enters tries
RoundTrip ==
    /\ rtPc = "idle"
    /\ rtPc' = "tries"
    /\ depth' = 1
    /\ try' = 0
    /\ UNCHANGED <<rt, response, error, outcomes, events>>
    /\ UNCHANGED <<attemptVars, retryVars, prepareVars, classifyVars, bucketVars>>

\* what tries did, in the order it did it: "exec" the underlying RoundTrip of
\* a try, "close" response.Body.Close() after it, "wait" self.Wait(arg)
Event(e, i) == [op |-> e, arg |-> i]

\* a faulty turn: self.Wait is called before the body is closed
triesTurnWaitFirst(t, o, i) ==
    IF ~ShouldRetry(t.ShouldRetry, o.response, o.error)
    THEN [response |-> o.response, error |-> o.error, try |-> i, break |-> TRUE,
          events |-> <<Event("exec", i)>>]
    ELSE [response |-> IF o.response.nil THEN o.response
                       ELSE [o.response EXCEPT !.closed = TRUE],
          error    |-> o.error,
          try      |-> i + 1,
          break    |-> FALSE,
          events   |-> <<Event("exec", i)>>
                         \o (IF t.Wait THEN <<Event("wait", i)>> ELSE <<>>)
                         \o (IF o.response.nil THEN <<>> ELSE <<Event("close", i)>>)]

\* one turn of the loop of tries, with o what the underlying transport
\* returned: the resulting locals, loop variable and events
triesTurn(t, o, i) ==
    IF ~ShouldRetry(t.ShouldRetry, o.response, o.error)
    THEN [response |-> o.response, error |-> o.error, try |-> i, break |-> TRUE,
          events |-> <<Event("exec", i)>>]
    ELSE [response |-> IF o.response.nil THEN o.response
                       ELSE [o.response EXCEPT !.closed = TRUE],
          error    |-> o.error,
          try      |-> i + 1,
          break    |-> FALSE,
          events   |-> <<Event("exec", i)>>
                         \o (IF o.response.nil THEN <<>> ELSE <<Event("close", i)>>)
                         \o (IF t.Wait THEN <<Event("wait", i)>> ELSE <<>>)]

\* tries, the copy that calls self.transport.RoundTrip: one turn of the loop
TriesTurn ==
    /\ rtPc = "tries"
    /\ rt.copy = "transport"
    /\ try < rt.MaxTries
    /\ \E o \in Outcomes :
         LET r == triesTurn(rt, o, try)
         IN  /\ outcomes' = Append(outcomes, o)
             /\ response' = r.response
             /\ error' = r.error
             /\ try' = r.try
             /\ events' = events \o r.events
             /\ rtPc' = IF r.break THEN "break" ELSE "tries"
    /\ UNCHANGED <<rt, depth>>
    /\ UNCHANGED <<attemptVars, retryVars, prepareVars, classifyVars, bucketVars>>

\* tries, the copy that calls self.RoundTrip: the call enters tries again
TriesRecurse ==
    /\ rtPc = "tries"
    /\ rt.copy = "self"
    /\ try < rt.MaxTries
    /\ depth < MaxStack
    /\ depth' = depth + 1
    /\ try' = 0
    /\ UNCHANGED <<rt, rtPc, response, error, outcomes, events>>
    /\ UNCHANGED <<attemptVars, retryVars, prepareVars, classifyVars, bucketVars>>

\* ... until the goroutine stack is exhausted and the runtime aborts
StackOverflow ==
    /\ rtPc = "tries"
    /\ rt.copy = "self"
    /\ try < rt.MaxTries
    /\ depth = MaxStack
    /\ rtPc' = "overflow"
    /\ UNCHANGED <<rt, try, response, error, outcomes, events, depth>>
    /\ UNCHANGED <<attemptVars, retryVars, prepareVars, classifyVars, bucketVars>>

\* return response, error
TriesReturn ==
    /\ \/ rtPc = "break"
       \/ rtPc = "tries" /\ ~(try < rt.MaxTries)
    /\ rtPc' = "returned"
    /\ UNCHANGED <<rt, try, response, error, outcomes, events, depth>>
    /\ UNCHANGED <<attemptVars, retryVars, prepareVars, classifyVars, bucketVars>>

InitTransport ==
    /\ IdleAttempt /\ IdleRetry /\ IdlePrepare /\ IdleClassify /\ IdleBucket
    /\ rt \in Transports
    /\ rtPc = "idle"
    /\ try = 0
    /\ response = NilResponse
    /\ error = NilError
    /\ outcomes = <<>>
    /\ events = <<>>
    /\ depth = 0

NextTransport == RoundTrip \/ TriesTurn \/ TriesRecurse \/ StackOverflow \/ TriesReturn

SpecTransport == InitTransport /\ [][NextTransport]_vars

\* awsRetry applied to any response and error
InitRetry ==
    /\ IdleAttempt /\ IdleTransport /\ IdlePrepare /\ IdleClassify /\ IdleBucket
    /\ retryIn \in [res : Responses, err : Errors]
    /\ retryOut = FALSE
    /\ retryPc = "input"

AwsRetryCall ==
    /\ retryPc = "input"
    /\ retryOut' = awsRetry(retryIn.res, retryIn.err)
    /\ retryPc' = "done"
    /\ UNCHANGED <<retryIn, attemptVars, transportVars, prepareVars, classifyVars, bucketVars>>

NextRetry == AwsRetryCall

SpecRetry == InitRetry /\ [][NextRetry]_vars

----------------------------------------------------------------------------
(* The Attempt driven by its callers: any interleaving of Next, HasNext and *)
(* the passing of time.                                                     *)

\* what the clock read after the time.Sleep of Next (attempt.go 55-56) can
\* differ by from the clock read before it plus the duration slept: a
\* monotonic clock shows the oversleep, a wall clock may also have been set
\* back while Next slept
SleepDrifts(mono) ==
    IF mono THEN 0..MaxOversleep ELSE (0 - MaxSetBack)..MaxOversleep

InitAttempt ==
    /\ IdleTransport /\ IdleRetry /\ IdlePrepare /\ IdleClassify /\ IdleBucket
    /\ strategy \in Strategies
    /\ monotonic \in BOOLEAN
    /\ clock = 0
    /\ attempt = Start(strategy, 0)
    /\ call = [op |-> "Start", ret |-> TRUE, slept |-> 0]
    /\ prev = [op |-> "none", ret |-> TRUE]
    /\ nextCalls = 0

NextCall ==
    /\ nextCalls < MaxCalls
    /\ \E over \in SleepDrifts(monotonic) :
         LET r == Next(attempt, clock, over)
         IN  /\ (r.slept = 0 => over = 0)
             /\ r.now >= 0 - MaxBack
             /\ attempt' = r.a
             /\ clock' = r.now
             /\ call' = [op |-> "Next", ret |-> r.ret, slept |-> r.slept]
    /\ prev' = [op |-> call.op, ret |-> call.ret]
    /\ nextCalls' = nextCalls + 1
    /\ UNCHANGED <<strategy, monotonic>>
    /\ UNCHANGED <<transportVars, retryVars, prepareVars, classifyVars, bucketVars>>

HasNextCall ==
    /\ LET r == HasNext(attempt, clock)
       IN  /\ attempt' = r.a
           /\ call' = [op |-> "HasNext", ret |-> r.ret, slept |-> 0]
    /\ prev' = [op |-> call.op, ret |-> call.ret]
    /\ UNCHANGED <<strategy, monotonic, clock, nextCalls>>
    /\ UNCHANGED <<transportVars, retryVars, prepareVars, classifyVars, bucketVars>>

\* time passes between two calls (the attempt itself, or anything else)
ClockAdvance ==
    /\ \E d \in 1..MaxStep :
         /\ clock + d <= attempt.end + MaxOver
         /\ clock' = clock + d
    /\ UNCHANGED <<strategy, attempt, monotonic, call, prev, nextCalls>>
    /\ UNCHANGED <<transportVars, retryVars, prepareVars, classifyVars, bucketVars>>

\* the wall clock is set back (time.Now() of a build without monotonic time)
ClockBack ==
    /\ ~monotonic
    /\ \E d \in 1..MaxStep :
         /\ clock - d >= 0 - MaxBack
         /\ clock' = clock - d
    /\ UNCHANGED <<strategy, attempt, monotonic, call, prev, nextCalls>>
    /\ UNCHANGED <<transportVars, retryVars, prepareVars, classifyVars, bucketVars>>

NextAttempt == NextCall \/ HasNextCall \/ ClockAdvance \/ ClockBack

SpecAttempt == InitAttempt /\ [][NextAttempt]_vars

----------------------------------------------------------------------------
(* An attempt loop run to its end under a monotonic clock: Next, HasNext    *)
(* and the passing of time in any order, until Next has refused.            *)

InitLoop ==
    /\ IdleTransport /\ IdleRetry /\ IdlePrepare /\ IdleClassify /\ IdleBucket
    /\ strategy \in Strategies
    /\ monotonic = TRUE
    /\ clock = 0
    /\ attempt = Start(strategy, 0)
    /\ call = [op |-> "Start", ret |-> TRUE, slept |-> 0]
    /\ prev = [op |-> "none", ret |-> TRUE]
    /\ nextCalls = 0

\* attempt.Next()
LoopNext ==
    /\ attempt.count < MaxAttempts
    /\ nextCalls - attempt.count < MaxRefusals
    /\ \E over \in SleepDrifts(monotonic) : \E r \in {Next(attempt, clock, over)} :
         /\ (r.slept = 0 => over = 0)
         /\ attempt' = r.a
         /\ clock' = r.now
         /\ call' = [op |-> "Next", ret |-> r.ret, slept |-> r.slept]
    /\ prev' = [op |-> call.op, ret |-> call.ret]
    /\ nextCalls' = nextCalls + 1
    /\ UNCHANGED <<strategy, monotonic>>
    /\ UNCHANGED <<transportVars, retryVars, prepareVars, classifyVars, bucketVars>>

\* attempt.HasNext()
LoopHasNext ==
    /\ \E r \in {HasNext(attempt, clock)} :
         /\ attempt' = r.a
         /\ call' = [op |-> "HasNext", ret |-> r.ret, slept |-> 0]
    /\ prev' = [op |-> call.op, ret |-> call.ret]
    /\ UNCHANGED <<strategy, monotonic, clock, nextCalls>>
    /\ UNCHANGED <<transportVars, retryVars, prepareVars, classifyVars, bucketVars>>

\* time passes between two calls
LoopTick ==
    /\ \E d \in 1..MaxStep :
         /\ clock + d <= attempt.end + MaxOver
         /\ clock' = clock + d
    /\ UNCHANGED <<strategy, attempt, monotonic, call, prev, nextCalls>>
    /\ UNCHANGED <<transportVars, retryVars, prepareVars, classifyVars, bucketVars>>

NextLoop == LoopNext \/ LoopHasNext \/ LoopTick

SpecLoop == InitLoop /\ [][NextLoop]_vars

----------------------------------------------------------------------------
(* prepare called on a fresh descriptor, and again as on a retry            *)

InitPrepare ==
    /\ IdleAttempt /\ IdleTransport /\ IdleRetry /\ IdleClassify /\ IdleBucket
    /\ s3 \in [Auth : {Auth}, Region : Regions]
    /\ \E c \in Callers, b \in Buckets, p \in Paths : req = request(c, b, p)
    /\ maps = CallerMaps
    /\ before = [req |-> req, maps |-> maps]
    /\ prepErr = NoError
    /\ prepCalls = 0

PrepareCall ==
    /\ prepCalls < MaxPrepares
    /\ LET r == prepare(s3, req, maps, clock)
       IN  /\ req' = r.req
           /\ maps' = r.maps
           /\ prepErr' = r.err
    /\ before' = [req |-> req, maps |-> maps]
    /\ prepCalls' = prepCalls + 1
    /\ UNCHANGED <<s3, attemptVars, transportVars, retryVars, classifyVars, bucketVars>>

\* time passes between two calls of prepare
PrepareTick ==
    /\ clock < MaxPrepareClock
    /\ clock' = clock + 1
    /\ UNCHANGED <<strategy, attempt, monotonic, call, prev, nextCalls>>
    /\ UNCHANGED <<prepareVars, transportVars, retryVars, classifyVars, bucketVars>>

NextPrepare == PrepareCall \/ PrepareTick

SpecPrepare == InitPrepare /\ [][NextPrepare]_vars

----------------------------------------------------------------------------
(* shouldRetry applied to an error of any kind                              *)

InitShouldRetry ==
    /\ IdleAttempt /\ IdleTransport /\ IdleRetry /\ IdlePrepare /\ IdleBucket
    /\ srIn \in ClassifiedErrors
    /\ srOut = FALSE
    /\ srPc = "input"

ShouldRetryCall ==
    /\ srPc = "input"
    /\ srOut' = shouldRetry(srIn)
    /\ srPc' = "done"
    /\ UNCHANGED <<srIn, attemptVars, transportVars, retryVars, prepareVars, bucketVars>>

NextShouldRetry == ShouldRetryCall

SpecShouldRetry == InitShouldRetry /\ [][NextShouldRetry]_vars

----------------------------------------------------------------------------
(* aws/s3/bucket.go: the bucket operations, attempt by attempt              *)

\* the operations: DelBucket and List loop over query, GetResponse prepares
\* once and loops over run, Del and PutReader call query once
LoopOps == {"DelBucket", "List", "GetResponse"}
BucketOps == LoopOps \cup {"Del", "PutReader"}
BucketNames == {<<"a">>, <<":">>}

\* req := &request{...} of each operation
descriptor(o, bucket) ==
    CASE o = "DelBucket" ->
           request([method |-> "DELETE", params |-> "nil", headers |-> "nil"], bucket, <<"/">>)
      [] o = "List" ->
           request([method |-> "", params |-> "callerParams", headers |-> "nil"], bucket, <<>>)
      [] o = "GetResponse" ->
           request([method |-> "", params |-> "nil", headers |-> "nil"], bucket, <<"k">>)
      [] o = "Del" ->
           request([method |-> "DELETE", params |-> "nil", headers |-> "nil"], bucket, <<"k">>)
      [] o = "PutReader" ->
           request([method |-> "PUT", params |-> "nil", headers |-> "callerHeaders"],
                   bucket, <<"k">>)

\* a faulty loop: another attempt is made after any error
againOnAnyError(o, err, hasNext) ==
    IF o = "GetResponse" THEN err # NoErr /\ hasNext ELSE err # NoErr

\* whether the loop of operation o makes another attempt after an attempt
\* that ended with err: if !shouldRetry(err) { break } in DelBucket and List,
\* if shouldRetry(err) && attempt.HasNext() { continue } in GetResponse
again(o, err, hasNext) ==
    IF o = "GetResponse" THEN shouldRetry(err) /\ hasNext ELSE shouldRetry(err)

\* how long an HTTP execution takes
RunTimes == {0, MaxRunTime}

InitBucket ==
    /\ IdleAttempt /\ IdleTransport /\ IdleRetry /\ IdleClassify
    /\ s3 \in [Auth : {Auth}, Region : Regions]
    /\ bOp \in BucketOps
    /\ \E b \in BucketNames : req = descriptor(bOp, b)
    /\ maps = CallerMaps
    /\ before = [req |-> req, maps |-> maps]
    /\ prepErr = NoError
    /\ prepCalls = 0
    /\ bPc = "start"
    /\ ret = NoRun
    /\ lastErr = NoErr
    /\ lastRun = NoRun
    /\ lastHttp = NoOutcome
    /\ execs = 0
    /\ sent = NoSent
    /\ signedAt = 0

\* for attempt := attempts.Start(); ... in DelBucket and List
OpenLoop ==
    /\ bPc = "start"
    /\ bOp \in {"DelBucket", "List"}
    /\ attempt' = Start(attempts, clock)
    /\ call' = [op |-> "Start", ret |-> TRUE, slept |-> 0]
    /\ prev' = [op |-> call.op, ret |-> call.ret]
    /\ nextCalls' = 0
    /\ bPc' = "next"
    /\ UNCHANGED <<strategy, clock, monotonic>>
    /\ UNCHANGED <<bOp, ret, lastErr, lastRun, lastHttp, execs, sent, signedAt>>
    /\ UNCHANGED <<transportVars, retryVars, prepareVars, classifyVars>>

\* GetResponse up to its loop: prepare, return its error if any, then
\* attempts.Start()
GetResponsePrepare ==
    /\ bPc = "start"
    /\ bOp = "GetResponse"
    /\ \E p \in {prepare(s3, req, maps, clock)} :
           /\ req' = p.req
           /\ maps' = p.maps
           /\ prepErr' = p.err
           /\ signedAt' = IF p.err = NoError THEN execs ELSE signedAt
           /\ IF p.err # NoError
              THEN /\ bPc' = "returned"
                   /\ ret' = [resp |-> NilHttpResponse, err |-> ErrorString(p.err)]
                   /\ UNCHANGED <<attempt, call, prev, nextCalls>>
              ELSE /\ bPc' = "next"
                   /\ ret' = ret
                   /\ attempt' = Start(attempts, clock)
                   /\ call' = [op |-> "Start", ret |-> TRUE, slept |-> 0]
                   /\ prev' = [op |-> call.op, ret |-> call.ret]
                   /\ nextCalls' = 0
    /\ before' = [req |-> req, maps |-> maps]
    /\ prepCalls' = prepCalls + 1
    /\ UNCHANGED <<strategy, clock, monotonic, s3>>
    /\ UNCHANGED <<bOp, lastErr, lastRun, lastHttp, execs, sent>>
    /\ UNCHANGED <<transportVars, retryVars, classifyVars>>

\* the time that passes between the return of HasNext and the call of Next
\* at the head of the loop of GetResponse (in DelBucket and List the time
\* between two calls of Next is the time of the query)
LoopGaps(o) == IF o = "GetResponse" THEN 0..MaxStep ELSE {0}

\* the head of the loop: attempt.Next(); when it returns false DelBucket and
\* List return the err of the last attempt, GetResponse reaches its panic
AttemptNext ==
    /\ bPc = "next"
    /\ \E gap \in LoopGaps(bOp) : \E r \in {Next(attempt, clock + gap, 0)} :
             /\ attempt' = r.a
             /\ clock' = r.now
             /\ call' = [op |-> "Next", ret |-> r.ret, slept |-> r.slept]
             /\ bPc' = IF r.ret THEN "body"
                       ELSE IF bOp = "GetResponse" THEN "panic" ELSE "returned"
             /\ ret' = IF r.ret \/ bOp = "GetResponse" THEN ret
                       ELSE [resp |-> NilHttpResponse, err |-> lastErr]
    /\ prev' = [op |-> call.op, ret |-> call.ret]
    /\ nextCalls' = nextCalls + 1
    /\ UNCHANGED <<strategy, monotonic>>
    /\ UNCHANGED <<bOp, lastErr, lastRun, lastHttp, execs, sent, signedAt>>
    /\ UNCHANGED <<transportVars, retryVars, prepareVars, classifyVars>>

\* self.S3.query(req, resp) with o what the HTTP execution returns and d the
\* time it takes: the descriptor, the maps, the clock and the records of the
\* call afterwards
QueryCall(o, d) ==
    \E p \in {prepare(s3, req, maps, clock)},
       q \in {query(s3, req, maps, bOp = "List", o, clock)} :
        /\ q.executed \/ d = 0
        /\ req' = q.req
        /\ maps' = q.maps
        /\ prepErr' = p.err
        /\ before' = [req |-> req, maps |-> maps]
        /\ prepCalls' = prepCalls + 1
        /\ signedAt' = IF p.err = NoError THEN execs ELSE signedAt
        /\ lastErr' = q.err
        /\ lastRun' = IF p.err = NoError THEN q.run ELSE lastRun
        /\ lastHttp' = IF q.executed THEN o ELSE lastHttp
        /\ execs' = IF q.executed THEN execs + 1 ELSE execs
        /\ sent' = IF q.executed THEN Sent(p.req, p.maps, signedAt' = execs, clock)
                   ELSE sent
        /\ clock' = clock + d

\* the body of the loop of DelBucket and List: query, then break unless
\* shouldRetry(err)
QueryAttempt ==
    /\ bPc = "body"
    /\ bOp \in {"DelBucket", "List"}
    /\ \E o \in DoOutcomes, d \in RunTimes : QueryCall(o, d)
    /\ bPc' = IF again(bOp, lastErr', FALSE) THEN "next" ELSE "returned"
    /\ ret' = IF again(bOp, lastErr', FALSE) THEN ret
              ELSE [resp |-> NilHttpResponse, err |-> lastErr']
    /\ UNCHANGED <<strategy, attempt, monotonic, call, prev, nextCalls, s3, bOp>>
    /\ UNCHANGED <<transportVars, retryVars, classifyVars>>

\* Del and PutReader: return self.S3.query(req, nil)
QueryOnce ==
    /\ bPc = "start"
    /\ bOp \in {"Del", "PutReader"}
    /\ \E o \in DoOutcomes, d \in RunTimes : QueryCall(o, d)
    /\ bPc' = "returned"
    /\ ret' = [resp |-> NilHttpResponse, err |-> lastErr']
    /\ UNCHANGED <<strategy, attempt, monotonic, call, prev, nextCalls, s3, bOp>>
    /\ UNCHANGED <<transportVars, retryVars, classifyVars>>

\* the body of the loop of GetResponse: run, continue if shouldRetry(err) and
\* attempt.HasNext(), else return the error or the response
RunAttempt ==
    /\ bPc = "body"
    /\ bOp = "GetResponse"
    /\ \E o \in DoOutcomes, d \in RunTimes :
         \E rr \in {run(req, maps, FALSE, o)}, hn \in {HasNext(attempt, clock + d)} :
         \E more \in {again(bOp, rr.err, hn.ret)} :
             /\ rr.executed \/ d = 0
             /\ maps' = rr.maps
             /\ lastErr' = rr.err
             /\ lastRun' = [resp |-> rr.resp, err |-> rr.err]
             /\ lastHttp' = IF rr.executed THEN o ELSE lastHttp
             /\ execs' = IF rr.executed THEN execs + 1 ELSE execs
             /\ sent' = IF rr.executed THEN Sent(req, maps, signedAt = execs, clock)
                        ELSE sent
             /\ clock' = clock + d
             /\ IF shouldRetry(rr.err)
                THEN /\ attempt' = hn.a
                     /\ call' = [op |-> "HasNext", ret |-> hn.ret, slept |-> 0]
                     /\ prev' = [op |-> call.op, ret |-> call.ret]
                ELSE UNCHANGED <<attempt, call, prev>>
             /\ bPc' = IF more THEN "next" ELSE "returned"
             /\ ret' = IF more THEN ret
                       ELSE IF rr.err # NoErr
                            THEN [resp |-> NilHttpResponse, err |-> rr.err]
                            ELSE [resp |-> rr.resp, err |-> NoErr]
    /\ UNCHANGED <<strategy, monotonic, nextCalls, s3, req, before, prepErr, prepCalls>>
    /\ UNCHANGED <<bOp, signedAt>>
    /\ UNCHANGED <<transportVars, retryVars, classifyVars>>

NextBucket ==
    OpenLoop \/ GetResponsePrepare \/ QueryOnce \/ AttemptNext \/ QueryAttempt \/ RunAttempt

SpecBucket == InitBucket /\ [][NextBucket]_vars

----------------------------------------------------------------------------
(* The claims about the Attempt                                             *)

\* C1: whenever HasNext returned true, the next call to Next on that Attempt
\* returns true, whatever the strategy, the attempt count and the time that
\* passed between the two calls.
C1_HasNextBindsNext ==
    (call.op = "Next" /\ prev.op = "HasNext" /\ prev.ret) => call.ret

\* HasNext answered true within the budget and with Min attempts done, the
\* deadline then passed, and Next still returned true
C1_Witness ==
    /\ call.op = "Next" /\ call.ret
    /\ prev.op = "HasNext" /\ prev.ret
    /\ attempt.count > strategy.Min + 1
    /\ attempt.last >= attempt.end

\* C2: the first Min calls to Next on a fresh Attempt all return true, however
\* the clock behaves; with the S3 strategy Next returns true at least 5 times.
C2_MinOverridesTotal ==
    /\ nextCalls <= strategy.Min => attempt.count = nextCalls
    /\ (strategy = attempts /\ nextCalls >= S3Min) => attempt.count >= S3Min

\* the S3 strategy: the fifth call to Next returned true after the deadline
C2_Witness ==
    /\ strategy = attempts
    /\ call.op = "Next" /\ call.ret
    /\ nextCalls = S3Min /\ attempt.count = S3Min
    /\ attempt.last > attempt.end

\* C3: the first call to Next on an Attempt returned by Start returns true,
\* for every strategy and however much time passed since Start.
C3_FirstNextTrue ==
    (call.op = "Next" /\ nextCalls = 1) => call.ret

\* Min = 0 and Total = 0, the first Next came after the deadline and
\* returned true
C3_Witness ==
    /\ call.op = "Next" /\ nextCalls = 1 /\ call.ret
    /\ strategy.Min = 0 /\ strategy.Total = 0
    /\ attempt.last > attempt.end

\* C4: a call to Next that is not the first and does not follow a HasNext that
\* returned true, made when at least Min attempts are counted and the current
\* time plus the remaining delay is not before the deadline, returns false
\* without sleeping and leaves the attempt count and the last-attempt time
\* as they were.
C4_ExhaustedNextFalse ==
    [][ ( /\ NextCall
          /\ nextCalls > 0
          /\ ~(call.op = "HasNext" /\ call.ret)
          /\ strategy.Min <= attempt.count
          /\ ~(clock + nextSleep(attempt, clock) < attempt.end) )
        => ( /\ call'.ret = FALSE
             /\ call'.slept = 0
             /\ clock' = clock
             /\ attempt'.count = attempt.count
             /\ attempt'.last = attempt.last ) ]_vars

\* a second or later Next, after a Next, found the budget used up with Min
\* attempts made, and returned false
C4_Witness ==
    /\ call.op = "Next" /\ ~call.ret /\ call.slept = 0
    /\ prev.op = "Next"
    /\ nextCalls > 1
    /\ strategy.Min >= 1 /\ strategy.Min <= attempt.count
    /\ ~(clock + nextSleep(attempt, clock) < attempt.end)

----------------------------------------------------------------------------
(* The claims about the ResilientTransport and awsRetry                     *)

Accepted(o) == ShouldRetry(rt.ShouldRetry, o.response, o.error)

\* C5: RoundTrip with MaxTries = n >= 1 ends by returning, after as many
\* executions of the underlying transport as the smaller of n and the
\* position of the first outcome the predicate rejects (exactly n when the
\* predicate always asks for a retry), and returns the response and error of
\* the last execution.
C5_TriesBounded ==
    (rt.MaxTries >= 1 /\ rtPc \in {"returned", "overflow"}) =>
        /\ rtPc = "returned"
        /\ Len(outcomes) >= 1
        /\ Len(outcomes) <= rt.MaxTries
        /\ \A i \in 1..(Len(outcomes) - 1) : Accepted(outcomes[i])
        /\ Len(outcomes) = rt.MaxTries \/ ~Accepted(outcomes[Len(outcomes)])
        /\ rt.ShouldRetry = "always" => Len(outcomes) = rt.MaxTries
        /\ response.nil = outcomes[Len(outcomes)].response.nil
        /\ response.StatusCode = outcomes[Len(outcomes)].response.StatusCode
        /\ error = outcomes[Len(outcomes)].error

\* the same, of the copy of tries that executes self.transport.RoundTrip
C5_TriesBoundedTransportCopy ==
    rt.copy = "transport" => C5_TriesBounded

\* C6: awsRetry returns true exactly when the error is a network error that
\* reports itself temporary, or the response is present with a status in
\* 500..599.
C6_AwsRetry ==
    retryPc = "done" =>
        ( retryOut <=>
            \/ ~retryIn.err.nil /\ retryIn.err.net /\ retryIn.err.temporary
            \/ ~retryIn.res.nil /\ retryIn.res.StatusCode \in 500..599 )

\* a response with status 599 and no error is retried
C6_Witness ==
    /\ retryPc = "done" /\ retryOut
    /\ retryIn.err.nil /\ ~retryIn.res.nil /\ retryIn.res.StatusCode = 599

----------------------------------------------------------------------------
(* The claims about prepare                                                 *)

VirtualHosted == s3.Region.S3BucketEndpoint # <<>>

\* the resource path as given, prefixed with "/" if it lacked one
Slashed(path) == IF path # <<>> /\ path[1] = "/" THEN path ELSE <<"/">> \o path

\* C7: under virtual-hosted addressing, for a bucket name containing "/", ":"
\* or "@", prepare returns an error and leaves every field of the descriptor
\* as it was before the call.
C7_RejectLeavesDescriptor ==
    ( /\ prepCalls >= 1
      /\ VirtualHosted
      /\ \E i \in 1..Len(before.req.bucket) : before.req.bucket[i] \in {"/", ":", "@"} )
    => ( /\ prepErr # NoError
         /\ req.method = before.req.method
         /\ req.path = before.req.path
         /\ req.signpath = before.req.signpath
         /\ req.baseurl = before.req.baseurl
         /\ req.prepared = before.req.prepared
         /\ MapOf(maps, req.params) = MapOf(before.maps, before.req.params)
         /\ MapOf(maps, req.headers) = MapOf(before.maps, before.req.headers) )

\* C8: for the same bucket and path, a first prepare that succeeds produces
\* the same signpath, "/" + bucket + path (path prefixed with "/" if missing),
\* under path-style and under virtual-hosted addressing; under virtual-hosted
\* addressing the path keeps no bucket prefix and the base URL is the template
\* with every placeholder replaced by the bucket.
C8_SameSignpath ==
    (prepCalls = 1 /\ prepErr = NoError /\ before.req.bucket # <<>>) =>
        /\ req.signpath = <<"/">> \o before.req.bucket \o Slashed(before.req.path)
        /\ VirtualHosted =>
             /\ req.path = Slashed(before.req.path)
             /\ req.baseurl = Replace(s3.Region.S3BucketEndpoint, BucketPlaceholder,
                                      before.req.bucket)
             /\ \A i \in 1..Len(req.baseurl) : req.baseurl[i] # "$"

\* virtual-hosted addressing, a path without its "/": the signpath has the
\* bucket, the path has not
C8_Witness ==
    /\ prepCalls = 1 /\ prepErr = NoError
    /\ VirtualHosted
    /\ before.req.bucket = <<"a", "a">> /\ before.req.path = <<"k">>
    /\ req.signpath = <<"/", "a", "a", "/", "k">>
    /\ req.path = <<"/", "k">>

\* C9 as stated: with a bucket named and no bucket endpoint, the first prepare
\* sets baseurl to S3Endpoint and both path and signpath to
\* "/" + bucket + the original path.
C9_PathStyleOriginalPath ==
    (prepCalls = 1 /\ ~VirtualHosted /\ before.req.bucket # <<>>) =>
        /\ req.baseurl = s3.Region.S3Endpoint
        /\ req.path = <<"/">> \o before.req.bucket \o before.req.path
        /\ req.signpath = <<"/">> \o before.req.bucket \o before.req.path

\* C9 as amended: ... both path and signpath to "/" + bucket + the original
\* path, the original path first prefixed with "/" if it did not start
\* with one.
C9_PathStyle ==
    (prepCalls = 1 /\ ~VirtualHosted /\ before.req.bucket # <<>>) =>
        /\ prepErr = NoError
        /\ req.baseurl = s3.Region.S3Endpoint
        /\ req.path = <<"/">> \o before.req.bucket \o Slashed(before.req.path)
        /\ req.signpath = <<"/">> \o before.req.bucket \o Slashed(before.req.path)

\* path-style addressing of bucket "a" with the empty path of List
C9_Witness ==
    /\ prepCalls = 1 /\ ~VirtualHosted
    /\ before.req.bucket = <<"a">> /\ before.req.path = <<>>
    /\ req.path = <<"/", "a", "/">> /\ req.signpath = <<"/", "a", "/">>
    /\ req.baseurl = s3.Region.S3Endpoint

\* C10: when the descriptor names no bucket, prepare resolves the base URL to
\* Region.S3Endpoint and leaves the path as given, prefixed with "/" if it
\* lacked one, with signpath equal to that path.
C10_NoBucketEndpoint ==
    (prepCalls = 1 /\ before.req.bucket = <<>>) =>
        /\ prepErr = NoError
        /\ req.baseurl = s3.Region.S3Endpoint
        /\ req.path = Slashed(before.req.path)
        /\ req.signpath = req.path

\* the part of C10 that is about the paths alone
C10_NoBucketPaths ==
    (prepCalls = 1 /\ before.req.bucket = <<>>) =>
        /\ prepErr = NoError
        /\ req.path = Slashed(before.req.path)
        /\ req.signpath = req.path

\* C11: a second or later prepare on a descriptor leaves method, path,
\* signpath and baseurl as they were (the bucket prefix is never added twice),
\* and, when it returns no error, has set Host from the base URL and Date
\* from the time of this call and has signed again with that Date.
C11_SecondPrepare ==
    [][ (PrepareCall /\ prepCalls >= 1) =>
          /\ req'.method = req.method
          /\ req'.path = req.path
          /\ req'.signpath = req.signpath
          /\ req'.baseurl = req.baseurl
          /\ prepErr' = NoError =>
                LET h == MapOf(maps', req'.headers)
                IN  /\ h["Host"] = UrlParse(req.baseurl).Host
                    /\ h["Date"] = RFC1123(clock)
                    /\ h["Authorization"].signature.canonical.date = RFC1123(clock)
                    /\ h["Authorization"] =
                         sign(s3.Auth, req.method, req.signpath,
                              MapOf(maps', req'.params), h)["Authorization"] ]_vars

\* path-style addressing: the second prepare, a second later, kept the path
\* with its one bucket prefix and signed with a later Date than the first
C11_Witness ==
    /\ prepCalls = 2 /\ prepErr = NoError
    /\ ~VirtualHosted
    /\ req.bucket = <<"a">>
    /\ req.path = <<"/", "a", "/", "k">> /\ before.req.path = req.path
    /\ MapOf(maps, req.headers)["Date"] > MapOf(before.maps, before.req.headers)["Date"]
    /\ MapOf(maps, req.headers)["Authorization"].signature.canonical.date =
          MapOf(maps, req.headers)["Date"]

----------------------------------------------------------------------------
(* The claims about the order of events in tries                            *)

\* the positions in events of the executions, and of what followed
\* execution n (counted from 1) before the next execution
ExecPositions == { j \in 1..Len(events) : events[j].op = "exec" }
PositionsAfter(n) ==
    { j \in 1..Len(events) :
        /\ events[j].op # "exec"
        /\ Cardinality({ k \in ExecPositions : k < j }) = n }
Waits == { j \in 1..Len(events) : events[j].op = "wait" }

\* C18: whenever the predicate asked for a retry after a try, the response
\* body, if there is a response, was closed before the wait function was
\* called, the wait function was called with the zero-based index of that
\* try, and it returned before the next execution started.
C18_CloseThenWait ==
    \A n \in 1..Len(outcomes) :
        Accepted(outcomes[n]) =>
            LET after  == PositionsAfter(n)
                closes == { j \in after : events[j].op = "close" }
                waits  == { j \in after : events[j].op = "wait" }
            IN  /\ Cardinality(closes) = IF outcomes[n].response.nil THEN 0 ELSE 1
                /\ Cardinality(waits) = IF rt.Wait THEN 1 ELSE 0
                /\ \A j \in waits : events[j].arg = n - 1
                /\ \A j \in waits : \A k \in closes : k < j
                /\ \A j \in waits : \A k \in ExecPositions :
                       events[k].arg >= n => j < k

\* a 503 was retried: its body was closed, then wait(0) was called, then the
\* second execution was made
C18_Witness ==
    /\ rt.copy = "transport" /\ rt.Wait /\ rt.ShouldRetry = "awsRetry"
    /\ Len(outcomes) = 2
    /\ outcomes[1].response.StatusCode = 503
    /\ Len(events) >= 4
    /\ events[1] = Event("exec", 0) /\ events[2] = Event("close", 0)
    /\ events[3] = Event("wait", 0) /\ events[4] = Event("exec", 1)

\* C19: the wait function is called only between two executions: a call of
\* tries that made k >= 1 executions called it exactly k - 1 times, and never
\* after its final execution.
C19_WaitOnlyBetween ==
    (rtPc = "returned" /\ rt.Wait /\ Len(outcomes) >= 1) =>
        /\ Cardinality(Waits) = Len(outcomes) - 1
        /\ \A j \in Waits : \E k \in ExecPositions : j < k

----------------------------------------------------------------------------
(* The claims about shouldRetry, run and the bucket operations              *)

\* C14: shouldRetry treats a structured Error as retryable exactly when its
\* Code is InternalError, NoSuchUpload or NoSuchBucket; every other Code, such
\* as AccessDenied, and a nil error are not retryable.
C14_ShouldRetryCodes ==
    srPc = "done" =>
        /\ srIn.kind = "*Error" =>
             (srOut <=> srIn.Code \in {"InternalError", "NoSuchUpload", "NoSuchBucket"})
        /\ srIn.kind = "nil" => ~srOut

\* a 404 with Code NoSuchBucket was classified retryable
C14_Witness ==
    /\ srPc = "done" /\ srOut
    /\ srIn.kind = "*Error" /\ srIn.Code = "NoSuchBucket" /\ srIn.StatusCode = 404

\* the status and the body of the response the last HTTP execution returned
Answered == execs >= 1 /\ ~lastHttp.response.nil
FailureStatus ==
    Answered /\ lastHttp.response.StatusCode # 200 /\ lastHttp.response.StatusCode # 204

\* var retryingTransport = &ResilientTransport{MaxTries: 3, ShouldRetry:
\* awsRetry, Wait: ExpBackoff}, the transport of aws.RetryingClient
retryingTransport == [MaxTries |-> 3, ShouldRetry |-> "awsRetry", Wait |-> TRUE]

\* C12: in DelBucket, List and GetResponse, every HTTP execution of an attempt
\* was preceded, within that attempt, by a prepare that set the Date header
\* to the current time and signed again; no retry is sent with the Date and
\* signature computed for an earlier attempt.
C12_SignedEachAttempt ==
    (bOp \in LoopOps /\ execs >= 1) => (sent.fresh /\ sent.current)

\* the same, of the operations that loop over query
C12_SignedEachAttemptQuery ==
    (bOp \in {"DelBucket", "List"} /\ execs >= 1) => (sent.fresh /\ sent.current)

\* C13: for a response of a status other than 200 and 204, run returns no
\* response and a structured Error whose StatusCode is the status of the
\* response; when the error document cannot be decoded or has an empty
\* message, the Message of the Error is the status line.
C13_FailureStatusError ==
    FailureStatus =>
        /\ lastRun.resp.nil
        /\ lastRun.err.kind = "*Error"
        /\ lastRun.err.StatusCode = lastHttp.response.StatusCode
        /\ lastRun.err.Message \in {lastHttp.response.Body.Message, lastHttp.response.Status}
        /\ lastRun.err.Message # ""
        /\ (lastHttp.response.Body.doc # "Error" \/ lastHttp.response.Body.Message = "")
             => lastRun.err.Message = lastHttp.response.Status

\* what run does of it: no response, a structured Error with the status of
\* the response, and the status line as Message exactly when Decode left the
\* Message empty, whether it returned an error or not
C13_StatusLineForEmptyMessage ==
    FailureStatus =>
        /\ lastRun.resp.nil
        /\ lastRun.err.kind = "*Error"
        /\ lastRun.err.StatusCode = lastHttp.response.StatusCode
        /\ lastRun.err.Message # ""
        /\ LET d == xmlDecode(BodyClose(lastHttp.response).Body)
           IN  lastRun.err.Message =
                   IF d.Message = "" THEN lastHttp.response.Status ELSE d.Message

\* C15: a failure to decode the body of a 200 or 204 response is never
\* retried: in List the attempt in which decoding failed is the last attempt
\* and its decode error is what List returns, whatever the decode failure, an
\* empty or truncated body included.
C15_DecodeErrorNotRetried ==
    ( /\ bOp = "List" /\ Answered
      /\ lastHttp.response.StatusCode \in {200, 204}
      /\ lastRun.err # NoErr )
    => (bPc = "returned" /\ ret.err = lastRun.err)

\* the same, of the decode errors that are no end-of-input errors
C15_SyntaxErrorNotRetried ==
    ( /\ bOp = "List" /\ Answered
      /\ lastHttp.response.StatusCode \in {200, 204}
      /\ lastRun.err.kind = "*xml.SyntaxError" )
    => (bPc = "returned" /\ ret.err = lastRun.err)

\* C16: every HTTP execution of run goes through the ResilientTransport: a
\* temporary network failure during any operation, Del and PutReader
\* included, is retried up to the MaxTries of the transport before an error
\* reaches the caller.
C16_ThroughResilientTransport ==
    /\ execs >= 1 => sent.client = "aws.RetryingClient"
    /\ (bPc = "returned" /\ execs >= 1 /\ lastHttp.temporary)
         => execs >= retryingTransport.MaxTries

\* C17: DelBucket, List and GetResponse make a further attempt only after an
\* attempt that failed with an error shouldRetry accepts; after a success or
\* a non-retryable error they return; and what they return when the Attempt
\* is exhausted, as in every other case, is the error of the last attempt.
C17_RetryOnlyRetryable ==
    bOp \in LoopOps =>
        /\ (bPc = "next" /\ nextCalls >= 1) => shouldRetry(lastErr)
        /\ (bPc = "body" /\ nextCalls >= 2) => shouldRetry(lastErr)
        /\ (bPc = "returned" /\ nextCalls >= 1) =>
             /\ ret.err = lastErr
             /\ shouldRetry(lastErr) => (call.op \in {"Next", "HasNext"} /\ ~call.ret)
             /\ (bOp = "GetResponse" /\ lastErr = NoErr) => ret.resp = lastRun.resp

\* List was answered an empty body until Next returned false, after more
\* than Min attempts: it returned the io.EOF of its last attempt
C17_Witness ==
    /\ bOp = "List" /\ bPc = "returned"
    /\ call.op = "Next" /\ ~call.ret
    /\ attempt.count > S3Min
    /\ lastErr = EOF /\ ret.err = EOF

\* C20: for a response of a status other than 200 and 204 whose body is a
\* well-formed error document, the Error has the Code and the Message of the
\* document (the body is open when buildError decodes it), so that a
\* NoSuchBucket or InternalError answer makes DelBucket and List retry.
C20_ErrorDocumentDecoded ==
    (FailureStatus /\ lastHttp.response.Body.doc = "Error") =>
        /\ lastRun.err.Code = lastHttp.response.Body.Code
        /\ lastHttp.response.Body.Message # "" =>
             lastRun.err.Message = lastHttp.response.Body.Message
        /\ ( /\ lastHttp.response.Body.Code \in {"NoSuchBucket", "InternalError"}
             /\ bOp \in {"DelBucket", "List"}
             /\ bPc = "returned" )
           => (call.op = "Next" /\ ~call.ret)

----------------------------------------------------------------------------
(* The claims about the attempt loops                                       *)

\* C21: GetResponse never reaches its panic("unreachable"): whatever the
\* attempts return and however much time passes between HasNext and Next, the
\* loop is left through a return, because Next is called again only after
\* HasNext returned true.
C21_NeverPanics == bPc # "panic"

\* GetResponse went round its loop after the deadline: HasNext had answered
\* true before it, Next was called after it and still returned true
C21_Witness ==
    /\ bOp = "GetResponse"
    /\ bPc = "body"
    /\ call.op = "Next" /\ call.ret
    /\ prev.op = "HasNext" /\ prev.ret
    /\ attempt.count > attempt.strategy.Min
    /\ attempt.last >= attempt.end

\* max(1, Min, ceil(Total / Delay)) for a strategy with Delay > 0
MaxOf(a, b) == IF a >= b THEN a ELSE b
AttemptBound(s) == MaxOf(1, MaxOf(s.Min, (s.Total + s.Delay - 1) \div s.Delay))

\* C22: for a strategy with Delay > 0 and a monotonic clock, whatever the
\* order of the calls of Next and HasNext and of the passing of time, Next
\* returns true at most max(1, Min, ceil(Total / Delay)) times on one Attempt,
\* 25 times for the S3 strategy, and returns false from then on.
C22_AttemptsBounded ==
    strategy.Delay > 0 /\ monotonic =>
        /\ attempt.count <= AttemptBound(strategy)
        /\ (strategy = attempts => attempt.count <= 25)
        /\ (call.op = "Next" /\ call.ret => nextCalls = attempt.count)

\* the S3 strategy made its 25 attempts and the 26th call of Next refused
C22_Witness ==
    /\ strategy = attempts
    /\ attempt.count = 25
    /\ nextCalls = 26
    /\ call.op = "Next" /\ ~call.ret

\* C23 as stated, for any clock: a call of Next that returns true after an
\* earlier one records an attempt time at least Delay after the time the
\* earlier one recorded.  A wall clock set back while Next sleeps refutes it.
C23_SpacedAnyClock ==
    [][ (call'.op = "Next" /\ nextCalls' = nextCalls + 1) =>
          (call'.ret /\ attempt.count > 0 =>
                 attempt'.last >= attempt.last + strategy.Delay) ]_vars

\* C23: under a monotonic clock a call of Next that returns true after an
\* earlier one records an attempt time at least Delay after the time the
\* earlier one recorded; with any clock the first call of Next does not
\* sleep, and a call of Next that returns true adds exactly one to the
\* attempt count.
C23_SpacedByDelay ==
    [][ (call'.op = "Next" /\ nextCalls' = nextCalls + 1) =>
          /\ (nextCalls = 0 => call'.slept = 0 /\ clock' = clock)
          /\ (call'.ret => attempt'.count = attempt.count + 1)
          /\ (monotonic /\ call'.ret /\ attempt.count > 0 =>
                 attempt'.last >= attempt.last + strategy.Delay) ]_vars

\* under a monotonic clock a later attempt for which Next slept, and
\* overslept: its time is more than Delay after the start
C23_Witness ==
    /\ monotonic
    /\ call.op = "Next" /\ call.ret
    /\ attempt.count >= 2
    /\ call.slept > 0
    /\ attempt.last = clock
    /\ attempt.last > strategy.Delay

\* C24: under a monotonic clock, once Next or HasNext has returned false on
\* an Attempt, every later call of Next and of HasNext on it returns false
\* and the attempt count does not change any more.
C24_ExhaustionAbsorbing ==
    [][ monotonic /\ call.op \in {"Next", "HasNext"} /\ ~call.ret =>
          /\ call'.op \in {"Next", "HasNext"} /\ ~call'.ret
          /\ attempt'.count = attempt.count ]_vars

\* Next was called after HasNext had returned false, later than the deadline
C24_Witness ==
    /\ monotonic
    /\ call.op = "Next" /\ ~call.ret
    /\ prev.op = "HasNext" /\ ~prev.ret
    /\ attempt.count > 0
    /\ clock > attempt.end

----------------------------------------------------------------------------
(* The claim about the maps of the caller                                   *)

\* C25: prepare and run never modify the params and headers maps the caller
\* put into the descriptor: from the first prepare on the descriptor refers
\* to copies, and Host, Date and Authorization (prepare) and the removal of
\* Content-Length (run) are applied to the copies, over all the attempts.
C25_CallerMapsUntouched ==
    /\ maps["callerParams"] = CallerMaps["callerParams"]
    /\ maps["callerHeaders"] = CallerMaps["callerHeaders"]
    /\ (req.prepared => req.params = "params" /\ req.headers = "headers")

\* PutReader has sent its request: the copy of the headers has lost
\* Content-Length and gained Host, Date and Authorization, the map of the
\* caller still has Content-Length and none of the three
C25_Witness ==
    /\ bOp = "PutReader"
    /\ bPc = "returned"
    /\ execs = 1
    /\ "Content-Length" \notin DOMAIN maps["headers"]
    /\ {"Host", "Date", "Authorization", "x-amz-acl"} \subseteq DOMAIN maps["headers"]
    /\ "Content-Length" \in DOMAIN maps["callerHeaders"]
    /\ {"Host", "Date", "Authorization"} \cap DOMAIN maps["callerHeaders"] = {}

=============================================================================
